---------------------------- MODULE Spec2Model ----------------------------
(***************************************************************************)
(* ifuse-automount (src/src/main.rs): the hotplug callbacks, the mpsc      *)
(* channel and the worker thread that mounts and unmounts Apple devices.  *)
(*                                                                         *)
(* Two contexts run concurrently: the libusb event context, which calls    *)
(* device_arrived / device_left, and the worker thread of Handler::spawn,  *)
(* which loops on rx.recv() and runs handle_device.  The worker is         *)
(* modelled one blocking call per step (pc), so that callbacks interleave  *)
(* with a handling in progress.  Every external call (child process, USB   *)
(* transfer, filesystem call) is free to succeed or fail, and the hotplug  *)
(* subsystem is free to call either callback with any device: libusb may   *)
(* report an arrival twice when it enumerates, and a departure whose       *)
(* arrival it never reported.                                              *)
(*                                                                         *)
(* The Sender lives in the hotplug registration, which main holds until    *)
(* the process ends, and the worker's loop has no exit: the Err arms of    *)
(* tx.send and rx.recv are not reached while the program runs.             *)
(***************************************************************************)
EXTENDS Integers, Sequences, FiniteSets, TLC

VARIABLES
    queue,      \* mpsc channel: messages sent and not yet received
    sent,       \* number of callback invocations so far
    pc,         \* the worker thread's position
    cur,        \* the event being handled and handle_device's locals
    devices,    \* Handler.devices: DeviceAddr -> serial number
    mounted,    \* directories on which a filesystem is mounted
    dirs,       \* directories that exist under base_path
    last,       \* what the most recently handled event did
    last2,      \* what the event handled before it did
    main,       \* the main thread's position and what its checks found
    attached,   \* the USB bus: the device plugged into each slot
    tracked     \* per slot, the identifier of its most recent record that
                \* no release followed ("" when there is none)

vars == <<queue, sent, pc, cur, devices, mounted, dirs, last, last2,
          main, attached, tracked>>

---------------------------------------------------------------------------
(* Bounds of the model *)

\* The callbacks are invoked at most MaxEvents times in a behaviour.
MaxEvents == 3

\* The same bound in the specification with fairness, where TLC has the
\* whole state graph to search for a cycle.
MaxLiveEvents == 2

---------------------------------------------------------------------------
(* Constants of the program *)

\* 0x05AC
APPLE_VENDOR_ID == 1452

\* 0x1290 .. 0x12ac, the 25 identifiers of the array
APPLE_PRODUCT_IDS ==
    { 4752, 4753, 4754, 4755, 4756, 4758, 4759, 4761, 4762, 4764,
      4765, 4766, 4767, 4768, 4769, 4770, 4771, 4772, 4773, 4774,
      4776, 4777, 4778, 4779, 4780 }

base_path == "ifuse-automount"

Mount == "Mount"
Unmount == "Unmount"
Action == {Mount, Unmount}

\* The five variants of enum Error, and Ok(()).  CantMount carries a text.
Ok == "Ok"
ErrIo == "Io"
ErrUsb == "Usb"
ErrCantMountLanguages == "Can't mount device: Languages empty"
ErrCantMountTool == "Can't mount device: <stderr>"
ErrIfuseNotInstalled == "ifuse not installed"
ErrDeviceNotFound == "Device not found"

---------------------------------------------------------------------------
(* The devices the hotplug subsystem reports *)

\* A libusb device as handle_device reads it: bus number, address, the
\* descriptor's identifiers and the serial number string.  Unit "B" is seen
\* on slot (1,2) and, after a replug, on slot (1,1), which unit "A" also
\* uses; the last device has the vendor's identifier and an unknown product.
Devices ==
    { [bus |-> 1, addr |-> 1, vendor_id |-> 1452, product_id |-> 4776, serial |-> "A"],
      [bus |-> 1, addr |-> 2, vendor_id |-> 1452, product_id |-> 4779, serial |-> "B"],
      [bus |-> 1, addr |-> 1, vendor_id |-> 1452, product_id |-> 4752, serial |-> "B"],
      [bus |-> 1, addr |-> 2, vendor_id |-> 1452, product_id |-> 0, serial |-> "C"] }

\* DeviceAddr { bus, addr }
DeviceAddr(device) == <<device.bus, device.addr>>

Slots == { DeviceAddr(d) : d \in Devices }
Serials == { d.serial : d \in Devices }

\* self.base_path.join(&serial_number)
PathOf(serial_number) == <<base_path, serial_number>>

\* The command lines of the two gateways: `ifuse <path>` and
\* `fusermount -u <path>`.
MountCall(serial_number) == <<"ifuse", PathOf(serial_number)>>
UnmountCall(serial_number) == <<"fusermount", "-u", PathOf(serial_number)>>

\* How a child process can end: it could not be launched, or it exited.
ChildOutcome == {"spawn_err", "exit_zero", "exit_nonzero"}

---------------------------------------------------------------------------
(* Pure functions *)

\* A vendor-only match: the product identifier is not looked at.
is_apple_device_vendor_only(vendor_id, product_id) ==
    APPLE_VENDOR_ID = vendor_id

\* A range check from the first to the last identifier of the array.
is_apple_device_range(vendor_id, product_id) ==
    APPLE_VENDOR_ID = vendor_id /\ product_id \in 4752..4780

is_apple_device(vendor_id, product_id) ==
    APPLE_VENDOR_ID = vendor_id /\ product_id \in APPLE_PRODUCT_IDS

\* output.is_ok(): the exit status is not looked at.
is_ifuse_installed_launched(output) == output # "spawn_err"

\* matches!(output, Ok(status) if status.success())
is_ifuse_installed(output) == output = "exit_zero"

\* The Result of ifuse_mount for an outcome of the `ifuse <path>` child.
ifuse_mount(output) ==
    CASE output = "spawn_err" -> ErrIo
      [] output = "exit_nonzero" -> ErrCantMountTool
      [] OTHER -> Ok

\* The Result of ifuse_unmount for an outcome of `fusermount -u <path>`.
ifuse_unmount(output) ==
    CASE output = "spawn_err" -> ErrIo
      [] output = "exit_nonzero" -> ErrCantMountTool
      [] OTHER -> Ok

\* entry(addr).or_insert(serial_number): an existing entry is kept.
devices_insert_keep(map, addr, serial_number) ==
    [a \in (DOMAIN map) \cup {addr} |->
        IF a \in DOMAIN map THEN map[a] ELSE serial_number]

\* HashMap::insert: inserts or overwrites the entry of addr.
devices_insert(map, addr, serial_number) ==
    [a \in (DOMAIN map) \cup {addr} |->
        IF a = addr THEN serial_number ELSE map[a]]

\* The registry is emptied: every slot loses its entry.
devices_remove_clear(map, addr) ==
    IF addr \in DOMAIN map
    THEN [found |-> TRUE, serial |-> map[addr], map |-> [a \in {} |-> ""]]
    ELSE [found |-> FALSE, serial |-> "", map |-> [a \in {} |-> ""]]

\* HashMap::get in the place of remove: the entry stays in the map.
devices_remove_get(map, addr) ==
    IF addr \in DOMAIN map
    THEN [found |-> TRUE, serial |-> map[addr], map |-> map]
    ELSE [found |-> FALSE, serial |-> "", map |-> map]

\* remove(&addr).unwrap_or_default(): an absent entry yields Some("").
devices_remove_or_default(map, addr) ==
    IF addr \in DOMAIN map
    THEN [found |-> TRUE, serial |-> map[addr],
          map |-> [a \in (DOMAIN map) \ {addr} |-> map[a]]]
    ELSE [found |-> TRUE, serial |-> "", map |-> map]

\* HashMap::remove: Some(value) and the map without the entry of addr, or
\* None and the map as it was.
devices_remove(map, addr) ==
    IF addr \in DOMAIN map
    THEN [found |-> TRUE, serial |-> map[addr],
          map |-> [a \in (DOMAIN map) \ {addr} |-> map[a]]]
    ELSE [found |-> FALSE, serial |-> "", map |-> map]

\* The entry is written whatever ifuse_mount returned.
after_mount_always(map, addr, serial_number, result) ==
    devices_insert(map, addr, serial_number)

\* The registry after `ifuse_mount(path)?; self.devices.insert(..)`: the `?`
\* returns before the insert when the mount failed.
after_mount(map, addr, serial_number, result) ==
    IF result = Ok THEN devices_insert(map, addr, serial_number) ELSE map

\* The entry is put back when the unmount failed.
after_unmount_restore(map, addr, serial_number, result) ==
    IF result = Ok THEN map ELSE devices_insert(map, addr, serial_number)

\* The registry after `ifuse_unmount(path)?` in the Some arm: the entry that
\* remove took out stays out, whatever the result.
after_unmount(map, addr, serial_number, result) == map

\* The language list is not checked: an empty list goes on like any other.
languages_result_unchecked(outcome) ==
    IF outcome = "err" THEN ErrUsb ELSE Ok

\* read_languages(TIMEOUT)? followed by the is_empty() check: the Result with
\* which the step leaves handle_device, Ok when it goes on.
languages_result(outcome) ==
    CASE outcome = "err" -> ErrUsb
      [] outcome = "empty" -> ErrCantMountLanguages
      [] OTHER -> Ok

\* fs::create_dir: an existing directory is an error (AlreadyExists).
create_dir(existing, path, ok) ==
    IF ok /\ path \notin existing
    THEN [ok |-> TRUE, dirs |-> existing \cup {path}]
    ELSE [ok |-> FALSE, dirs |-> existing]

\* fs::create_dir_all: Ok and nothing changed when the directory exists;
\* otherwise the directory is created, or the filesystem refuses (ok false).
create_dir_all(existing, path, ok) ==
    IF path \in existing THEN [ok |-> TRUE, dirs |-> existing]
    ELSE IF ok THEN [ok |-> TRUE, dirs |-> existing \cup {path}]
    ELSE [ok |-> FALSE, dirs |-> existing]

\* panic! is replaced by a warning: main goes on without hotplug support.
hotplug_check_warn(has_hotplug) == "probe"

\* if !rusb::has_hotplug() { panic!(..) }: where main goes next.
hotplug_check(has_hotplug) == IF has_hotplug THEN "probe" ELSE "panicked"

\* try_send on a channel of capacity 1: a message is dropped when full.
send_bounded(q, msg) == IF Len(q) >= 1 THEN q ELSE Append(q, msg)

\* Sender::send on the unbounded channel: the message goes to the back.
send(q, msg) == Append(q, msg)

\* The most recent message first.
recv_index_newest(q) == Len(q)

\* Receiver::recv hands out the message at the front of the channel.
recv_index(q) == 1

\* The loop ends at the first Err.
spawn_next_break(result) == IF result = Ok THEN "recv" ELSE "halted"

\* The loop ends when the mount tool is missing, as main does at startup.
spawn_next_exit(result) ==
    IF result = ErrIfuseNotInstalled THEN "halted" ELSE "recv"

\* The worker's loop: after handle_device returned result, an Err is
\* printed with eprintln! and the loop goes back to rx.recv().
spawn_next(result) == "recv"

\* What the loop prints on stderr for the result of handle_device.
spawn_report(result) == IF result = Ok THEN "" ELSE result

---------------------------------------------------------------------------
(* State *)

EmptyMap == [a \in {} |-> "A"]

\* No event is being handled.
Idle == [seq |-> 0]

\* No event has been handled yet.
NoEvent == [seq |-> 0]

\* No device is plugged into a slot.
NoDevice == [serial |-> ""]

\* No identifier is tracked for a slot.
NotTracked == ""

\* main has passed its checks, spawned the worker, registered the callbacks
\* and waits in context.handle_events.
MainRunning == [pos |-> "events", has_hotplug |-> TRUE, ifuse |-> "exit_zero"]

\* The state once main is in its event loop: the channel is empty, the worker
\* waits in rx.recv() with an empty registry.
Init ==
    /\ queue = <<>>
    /\ sent = 0
    /\ pc = "recv"
    /\ cur = Idle
    /\ devices = EmptyMap
    /\ mounted = {}
    /\ dirs = {}
    /\ last = NoEvent
    /\ last2 = NoEvent
    /\ main = MainRunning
    /\ attached = [s \in Slots |-> NoDevice]
    /\ tracked = [s \in Slots |-> NotTracked]

---------------------------------------------------------------------------
(* The hotplug callbacks (libusb's event context) *)

\* The callbacks say nothing of the bus (attached): the subsystem that calls
\* them does.
\* A message of the channel: (device, action).  seq numbers the callback
\* invocations in the order in which they happen.
Message(device, action) == [dev |-> device, action |-> action, seq |-> sent + 1]

\* self.tx.send((device, Action::Mount))
device_arrived(device) ==
    /\ sent < MaxEvents
    /\ sent' = sent + 1
    /\ queue' = send(queue, Message(device, Mount))
    /\ UNCHANGED <<pc, cur, devices, mounted, dirs, last, last2, main, tracked>>

\* self.tx.send((device, Action::Unmount))
device_left(device) ==
    /\ sent < MaxEvents
    /\ sent' = sent + 1
    /\ queue' = send(queue, Message(device, Unmount))
    /\ UNCHANGED <<pc, cur, devices, mounted, dirs, last, last2, main, tracked>>

---------------------------------------------------------------------------
(* The worker thread *)

\* handle_device returns result with the locals c; the registry is then
\* devicesAfter.  The loop of spawn reports an Err and goes on.
Complete(c, result, devicesAfter) ==
    /\ pc' = spawn_next(result)
    /\ cur' = Idle
    /\ devices' = devicesAfter
    /\ last' = [seq |-> c.seq, dev |-> c.dev, action |-> c.action,
                probe |-> c.probe, descriptor |-> c.descriptor,
                extOk |-> c.extOk, languages |-> c.languages,
                regBefore |-> c.regBefore, regAfter |-> devicesAfter,
                calls |-> c.calls, created |-> c.created,
                result |-> result, reported |-> spawn_report(result)]
    /\ last2' = last
    /\ UNCHANGED <<main, attached>>

\* The locals c after an external call (child process, USB transfer,
\* filesystem call) has failed.
ExtFailed(c) == [c EXCEPT !.extOk = FALSE]

\* handle_device goes on to the blocking call at position next, the step at
\* position pc done.
Continue(c, next) ==
    /\ pc' = next
    /\ cur' = [c EXCEPT !.steps = Append(@, pc)]
    /\ UNCHANGED <<last, last2, main, attached>>

\* rx.recv(): blocks while the channel is empty.
Recv ==
    /\ pc = "recv"
    /\ queue # <<>>
    /\ LET i == recv_index(queue)
           msg == queue[i]
       IN /\ cur' = [seq |-> msg.seq, dev |-> msg.dev, action |-> msg.action,
                     sentAtRecv |-> sent,
                     probe |-> "", descriptor |-> FALSE, extOk |-> TRUE,
                     languages |-> "", steps |-> <<>>,
                     regBefore |-> devices, serial |-> "",
                     calls |-> <<>>, created |-> {}]
          /\ queue' = [j \in 1..(Len(queue) - 1) |->
                          IF j < i THEN queue[j] ELSE queue[j + 1]]
    /\ pc' = "probe"
    /\ UNCHANGED <<sent, devices, mounted, dirs, last, last2,
                   main, attached, tracked>>

\* if !is_ifuse_installed() { return Err(Error::IfuseNotInstalled) }
Probe ==
    /\ pc = "probe"
    /\ \E output \in ChildOutcome :
          LET c == [cur EXCEPT !.probe = output] IN
          IF ~ is_ifuse_installed(output)
          THEN Complete(ExtFailed(c), ErrIfuseNotInstalled, devices)
          ELSE /\ Continue(c, "sleep")
               /\ UNCHANGED devices
    /\ UNCHANGED <<queue, sent, mounted, dirs, tracked>>

\* thread::sleep(Duration::from_millis(500))
Sleep ==
    /\ pc = "sleep"
    /\ Continue(cur, "descriptor")
    /\ UNCHANGED <<queue, sent, devices, mounted, dirs, tracked>>

\* device.device_descriptor()?, the classification, the device address and,
\* for Action::Unmount, self.devices.remove(&addr).
Descriptor ==
    /\ pc = "descriptor"
    /\ \E ok \in BOOLEAN :
          LET addr == DeviceAddr(cur.dev)
              c == [cur EXCEPT !.descriptor = TRUE]
              removed == devices_remove(devices, addr)
          IN
          IF ~ ok
          THEN Complete(ExtFailed(cur), ErrUsb, devices) /\ UNCHANGED tracked
          ELSE IF ~ is_apple_device(cur.dev.vendor_id, cur.dev.product_id)
          THEN Complete(c, Ok, devices) /\ UNCHANGED tracked
          ELSE IF cur.action = Mount
          THEN /\ Continue(c, "open")
               /\ UNCHANGED <<devices, tracked>>
          ELSE /\ tracked' = [tracked EXCEPT ![addr] = NotTracked]
               /\ IF removed.found
                  THEN /\ Continue([c EXCEPT !.serial = removed.serial], "unmount")
                       /\ devices' = removed.map
                  ELSE Complete(c, ErrDeviceNotFound, removed.map)
    /\ UNCHANGED <<queue, sent, mounted, dirs>>

\* let handle = device.open()?
Open ==
    /\ pc = "open"
    /\ \E ok \in BOOLEAN :
          IF ok
          THEN Continue(cur, "reset") /\ UNCHANGED devices
          ELSE Complete(ExtFailed(cur), ErrUsb, devices)
    /\ UNCHANGED <<queue, sent, mounted, dirs, tracked>>

\* handle.reset()?
Reset ==
    /\ pc = "reset"
    /\ \E ok \in BOOLEAN :
          IF ok
          THEN Continue(cur, "languages") /\ UNCHANGED devices
          ELSE Complete(ExtFailed(cur), ErrUsb, devices)
    /\ UNCHANGED <<queue, sent, mounted, dirs, tracked>>

\* handle.read_languages(TIMEOUT)? and the check of languages.is_empty()
Languages ==
    /\ pc = "languages"
    /\ \E outcome \in {"err", "empty", "some"} :
          LET c == [cur EXCEPT !.languages = outcome]
              result == languages_result(outcome)
          IN
          IF result = Ok
          THEN Continue(c, "serial") /\ UNCHANGED devices
          ELSE Complete(ExtFailed(c), result, devices)
    /\ UNCHANGED <<queue, sent, mounted, dirs, tracked>>

\* handle.read_serial_number_string(languages[0], &descriptor, TIMEOUT)?
Serial ==
    /\ pc = "serial"
    /\ \E ok \in BOOLEAN :
          IF ok
          THEN /\ Continue([cur EXCEPT !.serial = cur.dev.serial], "mkdir")
               /\ UNCHANGED devices
          ELSE Complete(ExtFailed(cur), ErrUsb, devices)
    /\ UNCHANGED <<queue, sent, mounted, dirs, tracked>>

\* fs::create_dir_all(&path)?
Mkdir ==
    /\ pc = "mkdir"
    /\ \E ok \in BOOLEAN :
          LET path == PathOf(cur.serial)
              made == create_dir_all(dirs, path, ok)
          IN
          /\ dirs' = made.dirs
          /\ IF made.ok
             THEN /\ Continue([cur EXCEPT !.created = @ \cup (made.dirs \ dirs)],
                              "mount")
                  /\ UNCHANGED devices
             ELSE Complete(ExtFailed(cur), ErrIo, devices)
    /\ UNCHANGED <<queue, sent, mounted, tracked>>

\* ifuse_mount(path)? and self.devices.insert(addr, serial_number).  calls
\* lists the invocations of the two gateways with their command lines.
MountDevice ==
    /\ pc = "mount"
    /\ \E output \in ChildOutcome :
          LET path == PathOf(cur.serial)
              addr == DeviceAddr(cur.dev)
              result == ifuse_mount(output)
              c == [cur EXCEPT !.calls = Append(@, MountCall(cur.serial))]
          IN
          /\ mounted' = IF result = Ok THEN mounted \cup {path} ELSE mounted
          /\ tracked' = IF result = Ok
                        THEN [tracked EXCEPT ![addr] = cur.serial]
                        ELSE tracked
          /\ Complete(IF result = Ok THEN c ELSE ExtFailed(c), result,
                      after_mount(devices, addr, cur.serial, result))
    /\ UNCHANGED <<queue, sent, dirs>>

\* ifuse_unmount(path)? on the directory of the removed entry
UnmountDevice ==
    /\ pc = "unmount"
    /\ \E output \in ChildOutcome :
          LET path == PathOf(cur.serial)
              result == ifuse_unmount(output)
              c == [cur EXCEPT !.calls = Append(@, UnmountCall(cur.serial))]
          IN
          /\ mounted' = IF result = Ok THEN mounted \ {path} ELSE mounted
          /\ Complete(IF result = Ok THEN c ELSE ExtFailed(c), result,
                      after_unmount(devices, DeviceAddr(cur.dev), cur.serial,
                                    result))
    /\ UNCHANGED <<queue, sent, dirs, tracked>>

Worker ==
    \/ Recv
    \/ Probe
    \/ Sleep
    \/ Descriptor
    \/ Open
    \/ Reset
    \/ Languages
    \/ Serial
    \/ Mkdir
    \/ MountDevice
    \/ UnmountDevice

\* The hotplug subsystem is free to call either callback with any device.
Next ==
    \/ \E d \in Devices : device_arrived(d) /\ UNCHANGED attached
    \/ \E d \in Devices : device_left(d) /\ UNCHANGED attached
    \/ Worker

Spec == Init /\ [][Next]_vars

\* Next with the callbacks bounded by MaxLiveEvents.
LiveNext ==
    \/ \E d \in Devices :
          device_arrived(d) /\ sent' <= MaxLiveEvents /\ UNCHANGED attached
    \/ \E d \in Devices :
          device_left(d) /\ sent' <= MaxLiveEvents /\ UNCHANGED attached
    \/ Worker

\* The worker is a thread of its own, which the operating system schedules
\* for as long as it can run; every call it makes returns.
FairSpec == Init /\ [][LiveNext]_vars /\ WF_vars(Worker)

---------------------------------------------------------------------------
(* The classification step over a range of identifiers *)

\* The product identifiers tried reach ProductMargin below the first and
\* above the last identifier of the array.
ProductMargin == 2

\* Vendor identifiers around the constant and at the ends of u16.
ClassifierVendors == {0, 1451, 1452, 1453, 65535}

\* Product identifiers across the array (0x1290..0x12ac), its margins, and
\* the ends of u16.
ClassifierProducts ==
    ((4752 - ProductMargin) .. (4780 + ProductMargin)) \cup {0, 65535}

\* The worker stands at device_descriptor() with an event of a device that
\* has any of these identifiers.
ClassifierInit ==
    /\ queue = <<>>
    /\ sent = 1
    /\ pc = "descriptor"
    /\ \E v \in ClassifierVendors, p \in ClassifierProducts, a \in Action :
          cur = [seq |-> 1,
                 dev |-> [bus |-> 1, addr |-> 1, vendor_id |-> v,
                          product_id |-> p, serial |-> "A"],
                 action |-> a, sentAtRecv |-> 1,
                 probe |-> "exit_zero", descriptor |-> FALSE, extOk |-> TRUE,
                 languages |-> "", steps |-> <<"probe", "sleep">>,
                 regBefore |-> EmptyMap, serial |-> "",
                 calls |-> <<>>, created |-> {}]
    /\ devices = EmptyMap
    /\ mounted = {}
    /\ dirs = {}
    /\ last = NoEvent
    /\ last2 = NoEvent
    /\ main = MainRunning
    /\ attached = [s \in Slots |-> NoDevice]
    /\ tracked = [s \in Slots |-> NotTracked]

ClassifierSpec == ClassifierInit /\ [][Descriptor]_vars

---------------------------------------------------------------------------
(* main, from the launch of the process *)

\* The callbacks are invoked at most MaxStartEvents times in a behaviour
\* that starts at the launch.
MaxStartEvents == 2

\* The process is launched: the worker thread does not exist yet, and the
\* host either supports hotplug or not and has a working ifuse or not.
MainInit ==
    /\ queue = <<>>
    /\ sent = 0
    /\ pc = "unspawned"
    /\ cur = Idle
    /\ devices = EmptyMap
    /\ mounted = {}
    /\ dirs = {}
    /\ last = NoEvent
    /\ last2 = NoEvent
    /\ \E h \in BOOLEAN, output \in ChildOutcome :
          main = [pos |-> "start", has_hotplug |-> h, ifuse |-> output]
    /\ attached = [s \in Slots |-> NoDevice]
    /\ tracked = [s \in Slots |-> NotTracked]

\* main moves to position next and touches nothing else.
MainGoes(next) ==
    /\ main' = [main EXCEPT !.pos = next]
    /\ UNCHANGED <<queue, sent, pc, cur, devices, mounted, dirs, last, last2,
                   attached, tracked>>

\* if !rusb::has_hotplug() { panic!("libusb hotplug api unsupported") }
HasHotplug ==
    /\ main.pos = "start"
    /\ MainGoes(hotplug_check(main.has_hotplug))

\* if !is_ifuse_installed() { return Err(Error::IfuseNotInstalled) }
StartupProbe ==
    /\ main.pos = "probe"
    /\ MainGoes(IF is_ifuse_installed(main.ifuse) THEN "runtime_dir" ELSE "exited")

\* dirs::runtime_dir().expect("home dir not found"), and mpsc::channel()
RuntimeDir ==
    /\ main.pos = "runtime_dir"
    /\ \E found \in BOOLEAN : MainGoes(IF found THEN "context" ELSE "panicked")

\* Context::new()?
ContextNew ==
    /\ main.pos = "context"
    /\ \E ok \in BOOLEAN : MainGoes(IF ok THEN "spawn" ELSE "exited")

\* Handler::new(base_path).spawn(rx): the worker thread starts in rx.recv().
SpawnWorker ==
    /\ main.pos = "spawn"
    /\ pc = "unspawned"
    /\ pc' = "recv"
    /\ main' = [main EXCEPT !.pos = "register"]
    /\ UNCHANGED <<queue, sent, cur, devices, mounted, dirs, last, last2,
                   attached, tracked>>

\* HotplugBuilder .enumerate(true): during register, device_arrived is
\* called for a device that is already plugged in.
Enumerate ==
    /\ main.pos = "register"
    /\ \E d \in Devices : device_arrived(d) /\ sent' <= MaxStartEvents
    /\ UNCHANGED attached

\* .register(&context, Box::new(hotplug_handler))?
Register ==
    /\ main.pos = "register"
    /\ \E ok \in BOOLEAN : MainGoes(IF ok THEN "events" ELSE "exited")

\* loop { context.handle_events(None)? }: libusb calls a callback for a
\* hotplug event, or the call fails and main returns the error.
HandleEvents ==
    /\ main.pos = "events"
    /\ \/ /\ \E d \in Devices :
                \/ device_arrived(d) /\ sent' <= MaxStartEvents
                \/ device_left(d) /\ sent' <= MaxStartEvents
          /\ UNCHANGED attached
       \/ MainGoes("exited")

\* The process lives until main panics or returns.
ProcessRunning == main.pos \notin {"panicked", "exited"}

\* The worker thread runs once it is spawned and while the process lives.
RunWorker == ProcessRunning /\ Worker

MainNext ==
    \/ HasHotplug
    \/ StartupProbe
    \/ RuntimeDir
    \/ ContextNew
    \/ SpawnWorker
    \/ Enumerate
    \/ Register
    \/ HandleEvents
    \/ RunWorker

MainSpec == MainInit /\ [][MainNext]_vars

---------------------------------------------------------------------------
(* The callbacks as a physical bus drives them *)

\* A unit is plugged into a free slot, and no unit is in two slots at once:
\* libusb calls device_arrived for it.
Plug(d) ==
    /\ attached[DeviceAddr(d)] = NoDevice
    /\ \A s \in Slots : attached[s].serial # d.serial
    /\ device_arrived(d)
    /\ attached' = [attached EXCEPT ![DeviceAddr(d)] = d]

\* The unit in a slot is unplugged: libusb calls device_left for it.
Unplug(d) ==
    /\ attached[DeviceAddr(d)] = d
    /\ device_left(d)
    /\ attached' = [attached EXCEPT ![DeviceAddr(d)] = NoDevice]

PhysNext ==
    \/ \E d \in Devices : Plug(d)
    \/ \E d \in Devices : Unplug(d)
    \/ Worker

\* Arrivals and departures alternate per slot, as plugging and unplugging do.
PhysSpec == Init /\ [][PhysNext]_vars

---------------------------------------------------------------------------
(* Vocabulary of the properties *)

\* e is the record of a handled event.
Handled(e) == e.seq > 0

\* The managed family: the vendor and the 25 enumerated products.
Managed(device) ==
    device.vendor_id = APPLE_VENDOR_ID /\ device.product_id \in APPLE_PRODUCT_IDS

\* The availability probe reported true in the handling of e.
ProbeOk(e) == e.probe = "exit_zero"

\* The worker is between two event handlings.
BetweenEvents == pc = "recv"

---------------------------------------------------------------------------
(* C1 *)

\* C1: between two event handlings, a slot is a key of the registry iff the
\* directory of its stored serial number is mounted: every entry designates
\* a mounted directory and every mounted directory is designated by an entry.
C1_RegistryIffMounted ==
    BetweenEvents =>
        /\ \A a \in DOMAIN devices : PathOf(devices[a]) \in mounted
        /\ \A path \in mounted :
              \E a \in DOMAIN devices : PathOf(devices[a]) = path

---------------------------------------------------------------------------
(* C2 *)

\* C2: the mount and release transitions of a slot alternate, starting with a
\* mount.  A release happens only for a slot of the registry (HashMap::remove
\* returned Some), so the alternation is this: an event that ends with a
\* successful mount tool call found its slot absent from the registry.
C2_MountOnlyWhenUntracked ==
    (/\ Handled(last)
     /\ last.action = Mount
     /\ last.result = Ok
     /\ last.calls # <<>>)
        => DeviceAddr(last.dev) \notin DOMAIN last.regBefore

---------------------------------------------------------------------------
(* C3 *)

\* C3: from an empty registry, an arrival and then a departure of the same
\* slot of a managed device, with every external call succeeding, make
\* exactly one mount call and one unmount call, both on base_path/<serial>,
\* and leave the registry empty.
C3_RoundTrip ==
    (/\ Handled(last2) /\ Handled(last)
     /\ last2.action = Mount /\ last.action = Unmount
     /\ Managed(last2.dev) /\ Managed(last.dev)
     /\ DeviceAddr(last.dev) = DeviceAddr(last2.dev)
     /\ last2.regBefore = EmptyMap
     /\ last2.extOk /\ last.extOk)
        => /\ last2.result = Ok /\ last.result = Ok
           /\ last2.calls = << MountCall(last2.dev.serial) >>
           /\ last.calls = << UnmountCall(last2.dev.serial) >>
           /\ DOMAIN last2.regAfter = {DeviceAddr(last2.dev)}
           /\ last.regAfter = EmptyMap

\* A round trip has been handled.
C3_Witness ==
    /\ Handled(last2) /\ Handled(last)
    /\ last2.action = Mount /\ last.action = Unmount
    /\ Managed(last2.dev) /\ last.dev = last2.dev
    /\ last2.regBefore = EmptyMap
    /\ last2.extOk /\ last.extOk
    /\ last.calls = << UnmountCall("A") >>
    /\ devices = EmptyMap /\ mounted = {}

---------------------------------------------------------------------------
(* C4 *)

\* C4 as claimed, for the departures that pass the guards before the
\* classification (probe true, descriptor read): a departure whose slot is
\* not in the registry ends with "Device not found" reported, no unmount
\* call and the registry unchanged.
C4_AbsentSlotReportsNotFound ==
    (/\ Handled(last)
     /\ last.action = Unmount
     /\ ProbeOk(last) /\ last.descriptor
     /\ DeviceAddr(last.dev) \notin DOMAIN last.regBefore)
        => /\ last.result = ErrDeviceNotFound
           /\ last.reported = ErrDeviceNotFound
           /\ last.calls = <<>>
           /\ last.regAfter = last.regBefore

\* C4 (amended): a departure whose slot is not in the registry makes no
\* unmount call and leaves the registry unchanged; when the probe reported
\* true and the descriptor was read, it ends with "Device not found"
\* reported if the device is in the managed family, and with success and
\* nothing reported if it is not.
C4_AbsentSlotDeparture ==
    (/\ Handled(last)
     /\ last.action = Unmount
     /\ DeviceAddr(last.dev) \notin DOMAIN last.regBefore)
        => /\ last.calls = <<>>
           /\ last.regAfter = last.regBefore
           /\ (ProbeOk(last) /\ last.descriptor /\ Managed(last.dev))
                 => /\ last.result = ErrDeviceNotFound
                    /\ last.reported = ErrDeviceNotFound
           /\ (ProbeOk(last) /\ last.descriptor /\ ~ Managed(last.dev))
                 => /\ last.result = Ok
                    /\ last.reported = ""

\* A managed device whose mount tool call failed has departed: its slot was
\* never recorded.
C4_Witness ==
    /\ Handled(last2) /\ Handled(last)
    /\ last2.action = Mount /\ last2.result = ErrCantMountTool
    /\ last.action = Unmount /\ last.dev = last2.dev
    /\ last.regBefore = EmptyMap
    /\ last.result = ErrDeviceNotFound

---------------------------------------------------------------------------
(* C5 *)

\* C5: an event (arrival or departure) at whose start the availability probe
\* reports false ends with "ifuse not installed" reported, makes no gateway
\* call, creates no directory and leaves the registry unchanged, and the
\* worker is not stopped by it.
C5_ToolUnavailableGuard ==
    /\ (Handled(last) /\ ~ ProbeOk(last))
          => /\ last.result = ErrIfuseNotInstalled
             /\ last.reported = ErrIfuseNotInstalled
             /\ last.calls = <<>>
             /\ last.created = {}
             /\ last.regAfter = last.regBefore
             /\ pc # "halted"
    /\ (pc \notin {"recv", "probe", "halted"}) => ProbeOk(cur)

\* The probe failed for a departure of a tracked slot, and the next event
\* has been dequeued.
C5_Witness ==
    /\ Handled(last) /\ ~ ProbeOk(last)
    /\ last.action = Unmount
    /\ DeviceAddr(last.dev) \in DOMAIN last.regBefore
    /\ pc = "probe" /\ cur.seq = last.seq + 1

---------------------------------------------------------------------------
(* C6 *)

\* C6: an arrival of a device outside the managed family creates no
\* directory, makes no gateway call and leaves the registry unchanged; when
\* it reaches the classification (probe true, descriptor read) it ends with
\* success and nothing is reported.
C6_NonManagedArrival ==
    /\ (Handled(last) /\ last.action = Mount /\ ~ Managed(last.dev))
          => /\ last.created = {}
             /\ last.calls = <<>>
             /\ last.regAfter = last.regBefore
             /\ (ProbeOk(last) /\ last.descriptor)
                   => (last.result = Ok /\ last.reported = "")
    /\ (pc \in {"open", "reset", "languages", "serial", "mkdir", "mount"})
          => Managed(cur.dev)

\* A device with the vendor's identifier and an unknown product has arrived
\* and been classified, while another device was mounted.
C6_Witness ==
    /\ Handled(last) /\ last.action = Mount /\ ~ Managed(last.dev)
    /\ last.dev.vendor_id = APPLE_VENDOR_ID
    /\ ProbeOk(last) /\ last.descriptor
    /\ last.result = Ok
    /\ devices # EmptyMap

---------------------------------------------------------------------------
(* C7 *)

\* C7: a callback can run in every state, whatever the length of the queue
\* and the position of the worker (the bound on the number of callbacks is
\* the model's only limit), and a callback step does nothing but put its one
\* message at the back of the channel.
C7_CallbacksNeverBlock ==
    /\ [](sent < MaxEvents =>
            \A d \in Devices :
                ENABLED device_arrived(d) /\ ENABLED device_left(d))
    /\ [][sent' # sent =>
            /\ sent' = sent + 1
            /\ Len(queue') = Len(queue) + 1
            /\ SubSeq(queue', 1, Len(queue)) = queue
            /\ queue'[Len(queue')].seq = sent'
            /\ UNCHANGED <<pc, cur, devices, mounted, dirs, last, last2,
                         main, tracked>>]_vars

\* Two callbacks have run while the worker was in the mount tool's child
\* process: both messages wait in the channel.
C7_Witness ==
    /\ pc = "mount"
    /\ cur.sentAtRecv = 1
    /\ sent = 3
    /\ Len(queue) = 2

---------------------------------------------------------------------------
(* C8 *)

\* C8: the events are handled in the order of their enqueuing, one at a time:
\* the handled events are the first last.seq ones, the event in progress (if
\* any) is the next one, and the queue holds the later ones in order.  No
\* event is in progress when the worker is at rx.recv(), and a gateway call
\* or a registry mutation belongs to the one event in progress.
C8_SerializedFifo ==
    LET done == last.seq
        busy == IF pc \in {"recv", "halted"} THEN 0 ELSE 1
    IN /\ (busy = 0) <=> (cur = Idle)
       /\ busy = 1 => cur.seq = done + 1
       /\ Handled(last) => last2.seq = done - 1
       /\ \A i \in 1..Len(queue) : queue[i].seq = done + busy + i
       /\ sent = done + busy + Len(queue)

\* Three events were enqueued; the first two have been handled in order and
\* the third is in its mount call.
C8_Witness ==
    /\ last2.seq = 1 /\ last.seq = 2
    /\ pc = "mount" /\ cur.seq = 3
    /\ cur.sentAtRecv = 3
    /\ last.dev # last2.dev

---------------------------------------------------------------------------
(* C9 *)

Errors ==
    { ErrIo, ErrUsb, ErrCantMountLanguages, ErrCantMountTool,
      ErrIfuseNotInstalled, ErrDeviceNotFound }

\* C9: an event that ends in an error is reported and the worker is back at
\* rx.recv(): it is never halted, it is at rx.recv() whenever no event is in
\* progress, and there it can take the next message of a non-empty channel.
C9_WorkerNeverHalts ==
    /\ pc # "halted"
    /\ cur = Idle => pc = "recv"
    /\ (pc = "recv" /\ queue # <<>>) => ENABLED Recv
    /\ Handled(last) => last.result \in Errors \cup {Ok}
    /\ (Handled(last) /\ last.result # Ok) => last.reported = last.result

\* An event ended with a failure of the mount tool and the next event has
\* been handled after it.
C9_Witness ==
    /\ Handled(last2) /\ last2.result = ErrCantMountTool
    /\ Handled(last) /\ last.seq = last2.seq + 1
    /\ last.result = Ok /\ last.calls # <<>>

---------------------------------------------------------------------------
(* C10 *)

\* C10: under fair scheduling of the worker, the n-th enqueued event is
\* eventually handled to completion, for every n.
C10_EveryEventHandled ==
    \A n \in 1..MaxLiveEvents : (sent >= n) ~> (last.seq >= n)

\* The mount of one device failed and the next event, of a device on another
\* slot, has been handled and mounted.
C10_Witness ==
    /\ Handled(last2) /\ last2.action = Mount
    /\ last2.result = ErrCantMountTool
    /\ Handled(last) /\ last.action = Mount
    /\ DeviceAddr(last.dev) # DeviceAddr(last2.dev)
    /\ last.dev.serial # last2.dev.serial
    /\ last.result = Ok
    /\ DOMAIN devices = {DeviceAddr(last.dev)}

---------------------------------------------------------------------------
(* C11 *)

\* The family as the product list names it: 0x1290..0x12ac without 0x1295,
\* 0x1298, 0x129b and 0x12a7, under vendor 0x05AC.
InFamily(vendor_id, product_id) ==
    /\ vendor_id = 1452
    /\ product_id \in (4752..4780) \ {4757, 4760, 4763, 4775}

\* The classification step took a device for a managed one: handle_device
\* went on to device.open() (arrival) or to the registry (departure).
TakenAsManaged ==
    \/ pc = "open"
    \/ Handled(last) /\ last.result = ErrDeviceNotFound

\* The classification step took a device for a foreign one: handle_device
\* returned Ok(()) right after the descriptor was read.
TakenAsForeign ==
    Handled(last) /\ last.descriptor /\ last.result = Ok

\* C11: is_apple_device is true exactly for vendor 0x05AC with one of the
\* 25 enumerated products, for every pair of identifiers; the step of
\* handle_device that calls it goes on for exactly those devices, and an
\* unknown product under the vendor, or a known product under another
\* vendor, is rejected.
C11_Classifier ==
    /\ Cardinality(APPLE_PRODUCT_IDS) = 25
    /\ \A v \in ClassifierVendors, p \in ClassifierProducts :
          is_apple_device(v, p) <=> InFamily(v, p)
    /\ is_apple_device(1452, 4776)
    /\ ~ is_apple_device(1452, 4757) /\ ~ is_apple_device(1452, 0)
    /\ ~ is_apple_device(1453, 4776) /\ ~ is_apple_device(0, 4776)
    /\ (pc = "open") => InFamily(cur.dev.vendor_id, cur.dev.product_id)
    /\ (Handled(last) /\ last.result = ErrDeviceNotFound)
          => InFamily(last.dev.vendor_id, last.dev.product_id)
    /\ TakenAsForeign
          => ~ InFamily(last.dev.vendor_id, last.dev.product_id)

\* The device 05ac:1295, a gap of the product list under the vendor's
\* identifier, has been classified and left alone.
C11_Witness ==
    /\ TakenAsForeign
    /\ last.dev.vendor_id = 1452 /\ last.dev.product_id = 4757
    /\ last.action = Mount

---------------------------------------------------------------------------
(* C12 *)

\* The entry of slot s in a registry, NotTracked when it has none.
Entry(map, s) == IF s \in DOMAIN map THEN map[s] ELSE NotTracked

\* The slot of the event being handled.
CurSlot == DeviceAddr(cur.dev)

\* C12: in every state the registry holds exactly the slots whose most
\* recent operation was a record with no release after it, each with the
\* identifier of that record; a release returns that identifier when the slot
\* is tracked and nothing when it is not; and a record or release leaves the
\* entry of every other slot as it was.
C12_RecordRelease ==
    /\ [](\A s \in Slots : Entry(devices, s) = tracked[s])
    /\ [][/\ ((pc = "descriptor" /\ pc' = "unmount")
                 => (/\ tracked[CurSlot] # NotTracked
                     /\ cur'.serial = tracked[CurSlot]
                     /\ CurSlot \notin DOMAIN devices'))
          /\ ((pc = "descriptor" /\ tracked' # tracked)
                 => (pc' = "unmount" /\ cur'.serial = tracked[CurSlot]))
          /\ ((pc = "descriptor" /\ last' # last
                      /\ last'.result = ErrDeviceNotFound)
                 => (tracked[CurSlot] = NotTracked /\ devices' = devices))
          /\ \A s \in Slots :
                ((pc = "recv" \/ s # CurSlot)
                    => Entry(devices', s) = Entry(devices, s))]_vars

\* The release of slot (1,1) has returned the recorded identifier "A" and
\* taken the entry out, and slot (1,2) is still tracked with its own.
C12_Witness ==
    /\ pc = "unmount"
    /\ CurSlot = <<1, 1>> /\ cur.serial = "A"
    /\ cur.regBefore[<<1, 1>>] = "A"
    /\ DOMAIN devices = {<<1, 2>>} /\ devices[<<1, 2>>] = "B"
    /\ tracked[<<1, 1>>] = NotTracked

---------------------------------------------------------------------------
(* C13 *)

\* The host lacks hotplug support, or `ifuse --version` does not exit with
\* status zero when main runs it.
StartupFatal == ~ main.has_hotplug \/ main.ifuse # "exit_zero"

\* C13: when hotplug support is absent or the probe fails at launch, main
\* never gets as far as spawning the worker, registering the callbacks or
\* the event loop: no event is enqueued or handled, nothing is created,
\* mounted or recorded; the failing check ends the process at once, and a
\* process that has ended takes no further step.
C13_StartupFatal ==
    /\ [](StartupFatal =>
            /\ main.pos \in {"start", "probe", "panicked", "exited"}
            /\ pc = "unspawned"
            /\ sent = 0 /\ queue = <<>>
            /\ cur = Idle /\ last = NoEvent
            /\ devices = EmptyMap /\ mounted = {} /\ dirs = {})
    /\ [][/\ ((main.pos = "start" /\ ~ main.has_hotplug)
                 => main'.pos = "panicked")
          /\ ((main.pos = "probe" /\ main.ifuse # "exit_zero")
                 => main'.pos = "exited")
          /\ ProcessRunning]_vars

\* The host supports hotplug, ifuse exits with a failure status, and main
\* has returned the error before spawning the worker.
C13_Witness ==
    /\ main.has_hotplug /\ main.ifuse = "exit_nonzero"
    /\ main.pos = "exited"
    /\ pc = "unspawned"

---------------------------------------------------------------------------
(* C14 *)

\* C14: no step removes a mount directory, and the creation step (the step
\* of the worker that leaves "mkdir") for an identifier whose directory
\* exists succeeds and leaves the directories as
\* they are.
C14_DirsOnlyGrow ==
    [][/\ dirs \subseteq dirs'
       /\ ((pc = "mkdir" /\ pc' # pc /\ PathOf(cur.serial) \in dirs)
              => (pc' = "mount" /\ dirs' = dirs /\ cur'.created = {}))]_vars

\* Unit "A" was mounted and unmounted, has arrived again, and the creation
\* step has passed on the directory left from the first time.
C14_Witness ==
    /\ pc = "mount"
    /\ cur.serial = "A" /\ cur.created = {}
    /\ PathOf("A") \in dirs
    /\ PathOf("A") \notin mounted
    /\ Handled(last) /\ last.action = Unmount /\ last.result = Ok

---------------------------------------------------------------------------
(* C15 *)

\* C15: a Mount event in which any external step failed (the open, the
\* reset, the language read or an empty list, the serial read, the directory
\* creation, the mount tool) leaves the registry as it was before the event,
\* is reported, and calls the mount gateway at most once; an entry is written
\* only by the step that ends a Mount event whose every step, the mount tool
\* included, succeeded, and it is the entry of that event's slot.
C15_InsertOnlyAfterMount ==
    /\ [](/\ (Handled(last) /\ last.action = Mount /\ ~ last.extOk)
                => /\ last.regAfter = last.regBefore
                   /\ last.result # Ok
                   /\ last.reported = last.result
                   /\ Len(last.calls) <= 1
          /\ (Handled(last) /\ last.action = Mount
                    /\ last.regAfter # last.regBefore)
                => /\ last.extOk /\ last.result = Ok
                   /\ last.calls = <<MountCall(last.dev.serial)>>
                   /\ DOMAIN last.regAfter
                        = DOMAIN last.regBefore \cup {DeviceAddr(last.dev)}
                   /\ last.regAfter[DeviceAddr(last.dev)] = last.dev.serial)
    /\ [][(\E s \in Slots :
              Entry(devices', s) \notin {Entry(devices, s), NotTracked})
            => /\ pc = "mount" /\ pc' = "recv"
               /\ last'.seq = cur.seq
               /\ last'.extOk /\ last'.result = Ok]_vars

\* The mount tool has exited with a failure status for unit "B" while unit
\* "A" is tracked: the directory of "B" was created, and the registry is what
\* it was.
C15_Witness ==
    /\ Handled(last) /\ last.action = Mount
    /\ last.result = ErrCantMountTool
    /\ last.dev.serial = "B"
    /\ last.created = {PathOf("B")}
    /\ last.calls = <<MountCall("B")>>
    /\ DOMAIN last.regBefore = {<<1, 1>>}
    /\ devices = last.regBefore

---------------------------------------------------------------------------
(* C16 *)

\* e is a departure that came to the Unmount arm (the probe reported true,
\* the descriptor was read, the device is managed) with its slot tracked.
TrackedDeparture(e) ==
    /\ Handled(e) /\ e.action = Unmount
    /\ ProbeOk(e) /\ e.descriptor /\ Managed(e.dev)
    /\ DeviceAddr(e.dev) \in DOMAIN e.regBefore

\* C16: a departure that comes to the Unmount arm with its slot tracked has
\* the entry out of the registry before the unmount gateway is called; the
\* gateway is called exactly once, on base_path/<the stored identifier>; a
\* failure of the tool is reported; and whatever the tool did, the slot is
\* absent after the event and the other entries are what they were.
C16_TrackedDeparture ==
    /\ (pc = "unmount")
          => /\ CurSlot \notin DOMAIN devices
             /\ cur.serial = cur.regBefore[CurSlot]
             /\ cur.calls = <<>>
    /\ TrackedDeparture(last)
          => /\ last.calls
                  = <<UnmountCall(last.regBefore[DeviceAddr(last.dev)])>>
             /\ DOMAIN last.regAfter
                  = DOMAIN last.regBefore \ {DeviceAddr(last.dev)}
             /\ \A s \in DOMAIN last.regAfter :
                   last.regAfter[s] = last.regBefore[s]
             /\ (~ last.extOk)
                   => (last.result # Ok /\ last.reported = last.result)
             /\ last.extOk => (last.result = Ok /\ last.reported = "")

\* `fusermount -u` has exited with a failure status for the tracked slot
\* (1,2): the failure is reported and the slot is gone from the registry,
\* in which slot (1,1) remains.
C16_Witness ==
    /\ TrackedDeparture(last)
    /\ DeviceAddr(last.dev) = <<1, 2>>
    /\ last.result = ErrCantMountTool
    /\ last.reported = ErrCantMountTool
    /\ DOMAIN last.regBefore = {<<1, 1>>, <<1, 2>>}
    /\ DOMAIN devices = {<<1, 1>>}

---------------------------------------------------------------------------
(* C17 *)

\* e is an arrival of a managed device on a slot that was in the registry
\* when e was dequeued, and every step of its handling, the mount tool
\* included, succeeded.
ReArrival(e) ==
    /\ Handled(e) /\ e.action = Mount
    /\ ProbeOk(e) /\ e.descriptor /\ Managed(e.dev) /\ e.extOk
    /\ DeviceAddr(e.dev) \in DOMAIN e.regBefore

\* C17: a successful arrival on a slot that is already tracked replaces the
\* slot's entry by the new identifier: nothing is reported, the only gateway
\* call of the event is the mount of the new identifier (no unmount of the
\* old one), and the registry has the same slots as before, the others with
\* the entries they had.
C17_ReArrivalOverwrite ==
    ReArrival(last)
       => /\ last.result = Ok /\ last.reported = ""
          /\ last.calls = <<MountCall(last.dev.serial)>>
          /\ DOMAIN last.regAfter = DOMAIN last.regBefore
          /\ last.regAfter[DeviceAddr(last.dev)] = last.dev.serial
          /\ \A s \in DOMAIN last.regAfter \ {DeviceAddr(last.dev)} :
                last.regAfter[s] = last.regBefore[s]

\* Unit "B" has arrived on slot (1,1), tracked for unit "A" whose departure
\* was never handled: the entry now names "B", and the directory of "A" is
\* still mounted.
C17_Witness ==
    /\ ReArrival(last)
    /\ DeviceAddr(last.dev) = <<1, 1>>
    /\ last.regBefore[<<1, 1>>] = "A"
    /\ last.dev.serial = "B"
    /\ devices[<<1, 1>>] = "B"
    /\ PathOf("A") \in mounted

---------------------------------------------------------------------------
(* C18 *)

\* The blocking steps of a Mount event in the order the claim gives them,
\* the mount gateway last.
MountSteps ==
    <<"probe", "sleep", "descriptor", "open", "reset", "languages", "serial",
      "mkdir", "mount">>

\* C18: the worker stands at a step of a Mount event only with exactly the
\* steps before it done, in order; it stands at the mount gateway only after
\* the probe reported true, the device was classified as managed, a
\* non-empty language list and the serial number were read and the directory
\* exists; an event that made a mount call went through all of that; and an
\* arrival of a device that offers no language ends with the "cannot mount"
\* condition, no directory created, no gateway call and the registry as it
\* was.
C18_MountStepOrder ==
    /\ \A i \in 1..Len(MountSteps) :
          (pc = MountSteps[i] /\ cur.action = Mount)
             => cur.steps = SubSeq(MountSteps, 1, i - 1)
    /\ (pc = "mount")
          => /\ cur.action = Mount
             /\ ProbeOk(cur) /\ cur.descriptor /\ Managed(cur.dev)
             /\ cur.languages = "some"
             /\ cur.serial = cur.dev.serial
             /\ PathOf(cur.serial) \in dirs
             /\ cur.calls = <<>>
    /\ (Handled(last) /\ last.action = Mount /\ last.calls # <<>>)
          => /\ ProbeOk(last) /\ last.descriptor /\ Managed(last.dev)
             /\ last.languages = "some"
             /\ PathOf(last.dev.serial) \in dirs
             /\ last.calls = <<MountCall(last.dev.serial)>>
    /\ (Handled(last) /\ last.action = Mount /\ last.languages = "empty")
          => /\ last.result = ErrCantMountLanguages
             /\ last.reported = ErrCantMountLanguages
             /\ last.created = {}
             /\ last.calls = <<>>
             /\ last.regAfter = last.regBefore

\* A managed device that offers no language has arrived while nothing was
\* mounted: the event ended with the "cannot mount" condition and no
\* directory exists.
C18_Witness ==
    /\ Handled(last) /\ last.action = Mount /\ Managed(last.dev)
    /\ last.languages = "empty"
    /\ last.result = ErrCantMountLanguages
    /\ dirs = {} /\ mounted = {}

---------------------------------------------------------------------------
(* C19 *)

\* C19: after the departure of a managed device has been handled, its slot
\* is not in the registry, whatever the probe, the descriptor read and the
\* unmount tool did; and when no device is plugged in, the queue is empty and
\* the worker is idle, the registry is empty.
C19_NoStaleEntry ==
    /\ (Handled(last) /\ last.action = Unmount /\ Managed(last.dev))
          => DeviceAddr(last.dev) \notin DOMAIN last.regAfter
    /\ ((\A s \in Slots : attached[s] = NoDevice)
            /\ queue = <<>> /\ BetweenEvents)
          => devices = EmptyMap

---------------------------------------------------------------------------
(* C20 *)

\* C20: no two slots of the registry have the same identifier, and no event
\* calls the mount gateway for an identifier that an entry of the registry
\* had when the event was dequeued.
C20_RegistryInjective ==
    /\ \A s1, s2 \in DOMAIN devices :
          (devices[s1] = devices[s2]) => (s1 = s2)
    /\ (Handled(last) /\ last.action = Mount /\ last.calls # <<>>)
          => \A s \in DOMAIN last.regBefore :
                last.regBefore[s] # last.dev.serial

=============================================================================
